---- MODULE Spec2Model ----
(***************************************************************************)
(* A model of the last-fm-rs client library: the signature engine          *)
(* (src/src/signature.rs), the authentication mode (src/src/auth_mode.rs),  *)
(* the operations of the HTTP client (src/src/client.rs) and the decoding  *)
(* of track metadata (src/src/track.rs).                                   *)
(*                                                                         *)
(* A client is used by one caller at a time.  Every asynchronous operation *)
(* is split where the code awaits the network: the part before             *)
(* `.send().await` is one action (it returns early or puts a request in    *)
(* flight), the part after it is a second action that takes the network's  *)
(* reply and computes the result.                                          *)
(***************************************************************************)
EXTENDS Integers, Sequences, FiniteSets, TLC

VARIABLES
  auth,      \* Client.auth: the AuthMode of the client
  pc,        \* "idle" | "awaiting" (a request is in flight) | "done"
  call,      \* the operation being executed and its arguments
  request,   \* the request in flight: <<>> or <<r>>
  reply,     \* the network's reply to the request: <<>> or <<r>>
  result,    \* the value the operation returned: <<>> or <<r>>
  sent,      \* number of requests the current call has issued
  sig_params,  \* a parameter map handed to signature::generate
  sig_secret,  \* the secret handed to signature::generate
  sig_out,     \* what generate returned for them: <<>> or <<s>>
  track_json,  \* a track.getInfo response body to decode: <<>> or <<json>>
  track_out    \* what decoding it returned: <<>> or <<r>>

clientVars == <<auth, pc, call, request, reply, result, sent>>

sigVars == <<sig_params, sig_secret, sig_out>>

trackVars == <<track_json, track_out>>

vars == <<auth, pc, call, request, reply, result, sent,
          sig_params, sig_secret, sig_out, track_json, track_out>>

-----------------------------------------------------------------------------
(* Bounds of the model.                                                    *)

\* Batches of every length up to MaxSmallBatch are enumerated record by
\* record; longer batches are taken at the lengths around the limit.
MaxSmallBatch == 2

\* Number of distinct authentication tokens a caller may pass.
NumTokens == 2

\* Number of distinct session keys a caller may set.
NumSessionKeys == 1

-----------------------------------------------------------------------------
(* Option<T>: None is the empty sequence, Some(v) the one-element one.     *)

None == <<>>

Some(v) == <<v>>

IsSome(o) == o # <<>>

-----------------------------------------------------------------------------
(* Strings are TLA+ strings; their bytes are needed for key order and for  *)
(* the digest.  Only printable ASCII occurs in the model.                  *)

\* The characters with byte values 32..95 and 97..126, in byte order.
AsciiLow ==
  " !\"#$%&'()*+,-./0123456789:;<=>?@ABCDEFGHIJKLMNOPQRSTUVWXYZ[\\]^_"

AsciiHigh == "abcdefghijklmnopqrstuvwxyz{|}~"

\* Byte value of a one-character string.
CharCode ==
  [c \in {SubSeq(AsciiLow, i, i) : i \in 1..Len(AsciiLow)}
         \cup {SubSeq(AsciiHigh, i, i) : i \in 1..Len(AsciiHigh)} |->
     IF \E i \in 1..Len(AsciiLow) : SubSeq(AsciiLow, i, i) = c
     THEN 31 + (CHOOSE i \in 1..Len(AsciiLow) : SubSeq(AsciiLow, i, i) = c)
     ELSE 96 + (CHOOSE i \in 1..Len(AsciiHigh) : SubSeq(AsciiHigh, i, i) = c)]

\* str::as_bytes
Bytes(s) ==
  [i \in 1..Len(s) |-> CharCode[SubSeq(s, i, i)]]

\* Ord for String: lexicographic order of the bytes.
StrLess(a, b) ==
  LET n == IF Len(a) < Len(b) THEN Len(a) ELSE Len(b)
      d == {i \in 1..n : SubSeq(a, i, i) # SubSeq(b, i, i)}
  IN  IF d = {} THEN Len(a) < Len(b)
      ELSE LET i == CHOOSE j \in d : \A k \in d : j <= k
           IN  CharCode[SubSeq(a, i, i)] < CharCode[SubSeq(b, i, i)]

DecDigits == "0123456789"

\* Display for unsigned integers (u32, u64, usize): decimal, no padding.
RECURSIVE DecStr(_)
DecStr(n) ==
  IF n < 10 THEN SubSeq(DecDigits, n + 1, n + 1)
  ELSE DecStr(n \div 10) \o SubSeq(DecDigits, (n % 10) + 1, (n % 10) + 1)

\* Concatenation of the strings f[lo], ..., f[hi] in order.
RECURSIVE ConcatRange(_, _, _)
ConcatRange(f, lo, hi) ==
  IF lo > hi THEN ""
  ELSE IF lo = hi THEN f[lo]
  ELSE LET mid == (lo + hi) \div 2
       IN  ConcatRange(f, lo, mid) \o ConcatRange(f, mid + 1, hi)

-----------------------------------------------------------------------------
(* md5::compute and its lower-case hexadecimal rendering (RFC 1321).  A    *)
(* 32-bit word is a pair <<high 16 bits, low 16 bits>>.                    *)

MD5_K ==
  <<
     <<55146, 42104>>, <<59591, 46934>>, <<9248, 28891>>, <<49597, 52974>>,
     <<62844, 4015>>, <<18311, 50730>>, <<43056, 17939>>, <<64838, 38145>>,
     <<27008, 39128>>, <<35652, 63407>>, <<65535, 23473>>, <<35164, 55230>>,
     <<27536, 4386>>, <<64920, 29075>>, <<42617, 17294>>, <<18868, 2081>>,
     <<63006, 9570>>, <<49216, 45888>>, <<9822, 23121>>, <<59830, 51114>>,
     <<54831, 4189>>, <<580, 5203>>, <<55457, 59009>>, <<59347, 64456>>,
     <<8673, 52710>>, <<49975, 2006>>, <<62677, 3463>>, <<17754, 5357>>,
     <<43491, 59653>>, <<64751, 41976>>, <<26479, 729>>, <<36138, 19594>>,
     <<65530, 14658>>, <<34673, 63105>>, <<28061, 24866>>, <<64997, 14348>>,
     <<42174, 59972>>, <<19422, 53161>>, <<63163, 19296>>, <<48831, 48240>>,
     <<10395, 32454>>, <<60065, 10234>>, <<54511, 12421>>, <<1160, 7429>>,
     <<55764, 53305>>, <<59099, 39397>>, <<8098, 31992>>, <<50348, 22117>>,
     <<62505, 8772>>, <<17194, 65431>>, <<43924, 9127>>, <<64659, 41017>>,
     <<25947, 22979>>, <<36620, 52370>>, <<65519, 62589>>, <<34180, 24017>>,
     <<28584, 32335>>, <<65068, 59104>>, <<41729, 17172>>, <<19976, 4513>>,
     <<63315, 32386>>, <<48442, 62005>>, <<10967, 53947>>, <<60294, 54161>>
  >>

MD5_S ==
  <<7, 12, 17, 22, 7, 12, 17, 22, 7, 12, 17, 22, 7, 12, 17, 22,
    5, 9, 14, 20, 5, 9, 14, 20, 5, 9, 14, 20, 5, 9, 14, 20,
    4, 11, 16, 23, 4, 11, 16, 23, 4, 11, 16, 23, 4, 11, 16, 23,
    6, 10, 15, 21, 6, 10, 15, 21, 6, 10, 15, 21, 6, 10, 15, 21>>

MD5_Init ==
  << <<26437, 8961>>, <<61389, 43913>>, <<39098, 56574>>, <<4146, 21622>> >>

Pow2 ==
  <<1, 2, 4, 8, 16, 32, 64, 128, 256, 512, 1024, 2048, 4096, 8192, 16384,
    32768, 65536>>

\* One bit of the round function of round group r (F, G, H, I) on B, C, D.
MixBit(r, b, c, d) ==
  CASE r = 0 -> IF b = 1 THEN c ELSE d
    [] r = 1 -> IF d = 1 THEN b ELSE c
    [] r = 2 -> (b + c + d) % 2
    [] OTHER -> (c + (IF b = 1 \/ d = 0 THEN 1 ELSE 0)) % 2

RECURSIVE Mix16(_, _, _, _, _)
Mix16(r, b, c, d, n) ==
  IF n = 0 THEN 0
  ELSE MixBit(r, b % 2, c % 2, d % 2)
       + 2 * Mix16(r, b \div 2, c \div 2, d \div 2, n - 1)

Mix32(r, b, c, d) ==
  <<Mix16(r, b[1], c[1], d[1], 16), Mix16(r, b[2], c[2], d[2], 16)>>

\* Addition modulo 2^32.
Add32(a, b) ==
  LET lo == a[2] + b[2]
  IN  <<(a[1] + b[1] + (lo \div 65536)) % 65536, lo % 65536>>

\* Rotation to the left by s bits, 0 < s < 32.
Rotl32(w, s) ==
  LET v == IF s >= 16 THEN <<w[2], w[1]>> ELSE w
      t == s % 16
  IN  IF t = 0 THEN v
      ELSE <<((v[1] * Pow2[t + 1]) % 65536) + (v[2] \div Pow2[17 - t]),
             ((v[2] * Pow2[t + 1]) % 65536) + (v[1] \div Pow2[17 - t])>>

MsgIndex(i) ==
  CASE i < 16 -> i
    [] i < 32 -> (5 * i + 1) % 16
    [] i < 48 -> (3 * i + 5) % 16
    [] OTHER -> (7 * i) % 16

\* Round i (0..63) on the state st = <<A, B, C, D>> with message words m.
Md5Step(i, st, m) ==
  LET f == Add32(Add32(Mix32(i \div 16, st[2], st[3], st[4]), st[1]),
                 Add32(MD5_K[i + 1], m[MsgIndex(i) + 1]))
  IN  <<st[4], Add32(st[2], Rotl32(f, MD5_S[i + 1])), st[2], st[3]>>

\* Rounds lo..hi in order.  The range is halved, and the first half is
\* evaluated (the test on its length) before the second half is entered, so
\* that the evaluation stays shallow.
RECURSIVE Md5Rounds(_, _, _, _)
Md5Rounds(lo, hi, st, m) ==
  IF lo = hi THEN Md5Step(lo, st, m)
  ELSE LET mid == (lo + hi) \div 2
           half == Md5Rounds(lo, mid, st, m)
       IN  IF Len(half) = 4 THEN Md5Rounds(mid + 1, hi, half, m) ELSE half

\* Padding: 0x80, zeros up to 56 modulo 64, the bit length in 64 bits,
\* little-endian (lengths in the model stay below 2^24 bits).
Md5Pad(b) ==
  LET n == Len(b)
      z == (119 - (n % 64)) % 64
      bits == 8 * n
  IN  b \o <<128>> \o [i \in 1..z |-> 0]
        \o <<bits % 256, (bits \div 256) % 256, (bits \div 65536) % 256,
             0, 0, 0, 0, 0>>

\* The 16 little-endian words of 64-byte block k (from 0) of p.
Md5Words(p, k) ==
  [j \in 1..16 |->
     LET o == 64 * k + 4 * (j - 1)
     IN  <<p[o + 3] + 256 * p[o + 4], p[o + 1] + 256 * p[o + 2]>>]

Md5Block(p, k, st) ==
  LET r == Md5Rounds(0, 63, st, Md5Words(p, k))
  IN  <<Add32(st[1], r[1]), Add32(st[2], r[2]),
        Add32(st[3], r[3]), Add32(st[4], r[4])>>

\* Blocks lo..hi in order, halved like the rounds.
RECURSIVE Md5Blocks(_, _, _, _)
Md5Blocks(p, lo, hi, st) ==
  IF lo = hi THEN Md5Block(p, lo, st)
  ELSE LET mid == (lo + hi) \div 2
           half == Md5Blocks(p, lo, mid, st)
       IN  IF Len(half) = 4 THEN Md5Blocks(p, mid + 1, hi, half) ELSE half

HexDigits == "0123456789abcdef"

HexByte(v) ==
  SubSeq(HexDigits, (v \div 16) + 1, (v \div 16) + 1)
    \o SubSeq(HexDigits, (v % 16) + 1, (v % 16) + 1)

\* The four bytes of a word, least significant first.
HexWord(w) ==
  HexByte(w[2] % 256) \o HexByte(w[2] \div 256)
    \o HexByte(w[1] % 256) \o HexByte(w[1] \div 256)

\* format!("{:x}", md5::compute(s.as_bytes()))
Md5Hex(s) ==
  LET p == Md5Pad(Bytes(s))
      st == Md5Blocks(p, 0, (Len(p) \div 64) - 1, MD5_Init)
  IN  HexWord(st[1]) \o HexWord(st[2]) \o HexWord(st[3]) \o HexWord(st[4])

-----------------------------------------------------------------------------
(* BTreeMap<String, String>: a function from keys to values, iterated in   *)
(* ascending key order.                                                    *)

EmptyMap == <<>>

\* BTreeMap::insert: the new value replaces an old one under the same key.
Insert(m, k, v) ==
  [x \in (DOMAIN m) \cup {k} |-> IF x = k THEN v ELSE m[x]]

\* Option-guarded insert: `if let Some(v) = o { m.insert(k, f(v)) }`.
InsertSome(m, k, o) ==
  IF IsSome(o) THEN Insert(m, k, o[1]) ELSE m

\* The keys in the order BTreeMap::iter yields them.
SortedKeys(m) ==
  LET K == DOMAIN m
      ranked == {<<Cardinality({j \in K : StrLess(j, k)}), k>> : k \in K}
  IN  [i \in 1..Cardinality(K) |-> (CHOOSE p \in ranked : p[1] = i - 1)[2]]

-----------------------------------------------------------------------------
(* signature.rs                                                            *)

\* A loop body of generate that pushes every entry, `format` included.
SigPieceNoSkip(key, value) ==
  key \o value

\* One iteration of the loop in generate: what (key, value) appends.
SigPiece(key, value) ==
  IF key # "format" THEN key \o value ELSE ""

\* sig_string after the loop and the push of the secret.
SigString(params, secret) ==
  LET keys == SortedKeys(params)
      parts == [i \in 1..Len(keys) |-> SigPiece(keys[i], params[keys[i]])]
  IN  ConcatRange(parts, 1, Len(keys)) \o secret

\* signature::generate
generate(params, secret) ==
  Md5Hex(SigString(params, secret))

-----------------------------------------------------------------------------
(* serde_json::Value                                                       *)

JNull == [t |-> "null", n |-> 0, s |-> "", f |-> <<>>]

JNum(x) == [t |-> "num", n |-> x, s |-> "", f |-> <<>>]

JStr(x) == [t |-> "str", n |-> 0, s |-> x, f |-> <<>>]

\* An object: f maps its keys to values.
JObj(x) == [t |-> "obj", n |-> 0, s |-> "", f |-> x]

\* An array: f is the sequence of its elements.
JArr(x) == [t |-> "arr", n |-> 0, s |-> "", f |-> x]

\* Value::get(key)
JsonGet(j, key) ==
  IF j.t = "obj" /\ key \in DOMAIN j.f THEN Some(j.f[key]) ELSE None

\* Index<&str> for Value: Null when j is no object or has no such key.
JsonIndex(j, key) ==
  IF j.t = "obj" /\ key \in DOMAIN j.f THEN j.f[key] ELSE JNull

\* Value::as_str
JsonAsStr(j) ==
  IF j.t = "str" THEN Some(j.s) ELSE None

\* Display for Value (compact JSON text; the strings of the model need no
\* escaping).
RECURSIVE JsonToString(_)
JsonToString(j) ==
  CASE j.t = "null" -> "null"
    [] j.t = "num" -> DecStr(j.n)
    [] j.t = "str" -> "\"" \o j.s \o "\""
    [] j.t = "arr" ->
         "[" \o ConcatRange([i \in 1..Len(j.f) |->
                               (IF i > 1 THEN "," ELSE "") \o JsonToString(j.f[i])],
                            1, Len(j.f)) \o "]"
    [] OTHER ->
         LET keys == SortedKeys(j.f)
         IN  "{" \o ConcatRange([i \in 1..Len(keys) |->
                                   (IF i > 1 THEN "," ELSE "") \o "\"" \o keys[i]
                                     \o "\":" \o JsonToString(j.f[keys[i]])],
                                1, Len(keys)) \o "}"

-----------------------------------------------------------------------------
(* error.rs: Result<T, Error>, and a panic of the calling task.            *)

Ok(v) == [tag |-> "Ok", val |-> v, kind |-> "", msg |-> ""]

\* kind is the variant of Error; msg its String (empty for the variants
\* that wrap another library's error).
Err(kind, msg) == [tag |-> "Err", val |-> <<>>, kind |-> kind, msg |-> msg]

\* Option::unwrap on None.
Panic == [tag |-> "Panic", val |-> <<>>, kind |-> "", msg |-> ""]

-----------------------------------------------------------------------------
(* url::Url, as far as the client uses it.  A Url is its serialization;    *)
(* the model's base URLs carry neither a query nor a fragment.             *)

\* Url::cannot_be_a_base: the character after "scheme:" is not a slash.
CannotBeABase(u) ==
  LET colon == CHOOSE i \in 1..Len(u) :
                 /\ SubSeq(u, i, i) = ":"
                 /\ \A j \in 1..(i - 1) : SubSeq(u, j, j) # ":"
  IN  SubSeq(u, colon + 1, colon + 1) # "/"

\* Url::join with a relative path of one segment: the segment replaces what
\* follows the last slash of the base; Err (None here) on a base that
\* cannot be a base.
UrlJoin(u, segment) ==
  IF CannotBeABase(u) THEN None
  ELSE LET last == CHOOSE i \in 1..Len(u) :
                     /\ SubSeq(u, i, i) = "/"
                     /\ \A j \in (i + 1)..Len(u) : SubSeq(u, j, j) # "/"
       IN  Some(SubSeq(u, 1, last) \o segment)

-----------------------------------------------------------------------------
(* auth_mode.rs                                                            *)

\* AuthMode::lastfm
lastfm(api_key, api_secret) ==
  [mode |-> "LastFm", api_key |-> api_key, api_secret |-> api_secret,
   session_key |-> None]

\* AuthMode::token
token(base_url, tok) ==
  [mode |-> "Token", base_url |-> base_url, token |-> tok]

\* A set_session_key that stores the key on a token client too, in place of
\* its token.
set_session_key_any_mode(a, key) ==
  IF a.mode = "LastFm" THEN [a EXCEPT !.session_key = Some(key)]
  ELSE [a EXCEPT !.token = key]

\* AuthMode::set_session_key
set_session_key(a, key) ==
  IF a.mode = "LastFm" THEN [a EXCEPT !.session_key = Some(key)] ELSE a

-----------------------------------------------------------------------------
(* client.rs: constants, requests and replies.                             *)

API_BASE == "https://ws.audioscrobbler.com/2.0/"

\* The authorization page under the https scheme.
AUTH_URL_HTTPS == "https://www.last.fm/api/auth/"

AUTH_URL == "http://www.last.fm/api/auth/"

\* The most scrobbles one call may carry.
MaxScrobbles == 50

\* A GET with query parameters or a POST with a form body (params), or a
\* POST with a bearer credential and a JSON body (json).
HttpRequest(verb, url, params, bearer, json) ==
  [verb |-> verb, url |-> url, params |-> params, bearer |-> bearer,
   json |-> json]

\* `.send().await` failed: no response.
SendError == [kind |-> "send_error", status_ok |-> FALSE, body |-> None]

\* A response: whether its status is a success, and its body as JSON (None
\* when the body is not JSON).
Response(ok, body) == [kind |-> "response", status_ok |-> ok, body |-> body]

\* What an operation does before it awaits: it returns (ret) or sends (req).
Return(r) == [ret |-> Some(r), req |-> None]

Send(r) == [ret |-> None, req |-> Some(r)]

\* `.send().await?.error_for_status()?`: the error it returns early with,
\* if any.
TransportError(rp) ==
  IF rp.kind = "send_error" \/ ~rp.status_ok THEN Some(Err("Http", ""))
  ELSE None

\* The same followed by `resp.json().await?`.
JsonError(rp) ==
  IF IsSome(TransportError(rp)) THEN TransportError(rp)
  ELSE IF rp.body = None THEN Some(Err("Http", ""))
  ELSE None

\* A signing step that signs with the api_key in place of the secret.
SignedWithKey(params, secret) ==
  Insert(Insert(params, "api_sig", generate(params, params["api_key"])),
         "format", "json")

\* The three lines that follow parameter assembly in every keyed request:
\* sign, insert api_sig, insert format.
Signed(params, secret) ==
  Insert(Insert(params, "api_sig", generate(params, secret)),
         "format", "json")

-----------------------------------------------------------------------------
(* Client::get_token                                                       *)

get_token_params(a) ==
  Insert(Insert(EmptyMap, "method", "auth.getToken"), "api_key", a.api_key)

\* A get_token without the mode check.
get_token_begin_unchecked(a) ==
  Send(HttpRequest("GET", API_BASE,
                   IF a.mode = "LastFm"
                   THEN Signed(get_token_params(a), a.api_secret)
                   ELSE EmptyMap,
                   None, None))

get_token_begin(a) ==
  IF a.mode = "Token"
  THEN Return(Err("Auth", "get_token() is only available in Last.fm mode"))
  ELSE Send(HttpRequest("GET", API_BASE,
                        Signed(get_token_params(a), a.api_secret), None, None))

get_token_end(rp) ==
  IF IsSome(JsonError(rp)) THEN JsonError(rp)[1]
  ELSE LET json == rp.body[1]
       IN  IF IsSome(JsonGet(json, "token"))
           THEN LET s == JsonAsStr(JsonGet(json, "token")[1])
                IN  IF IsSome(s) THEN Ok([token |-> s[1]]) ELSE Panic
           ELSE IF IsSome(JsonGet(json, "error"))
           THEN Err("Api", JsonToString(JsonGet(json, "error")[1]))
           ELSE Err("Api", "Unexpected response format")

-----------------------------------------------------------------------------
(* Client::get_auth_url                                                    *)

get_auth_url(a, tok) ==
  IF a.mode = "Token"
  THEN Err("Auth", "get_auth_url() is only available in Last.fm mode")
  ELSE Ok(AUTH_URL \o "?api_key=" \o a.api_key \o "&token=" \o tok)

-----------------------------------------------------------------------------
(* Client::get_session                                                     *)

get_session_params(a, tok) ==
  Insert(Insert(Insert(EmptyMap, "method", "auth.getSession"),
                "api_key", a.api_key),
         "token", tok)

get_session_begin(a, tok) ==
  IF a.mode = "Token"
  THEN Return(Err("Auth", "get_session() is only available in Last.fm mode"))
  ELSE Send(HttpRequest("GET", API_BASE,
                        Signed(get_session_params(a, tok), a.api_secret),
                        None, None))

\* A get_session that reports a remote error the way get_token does.
get_session_end_as_api(rp) ==
  IF IsSome(JsonError(rp)) THEN JsonError(rp)[1]
  ELSE LET json == rp.body[1]
       IN  IF IsSome(JsonGet(json, "session"))
           THEN LET session == JsonGet(json, "session")[1]
                    key == JsonAsStr(JsonIndex(session, "key"))
                    name == JsonAsStr(JsonIndex(session, "name"))
                IN  IF IsSome(key) /\ IsSome(name)
                    THEN Ok([key |-> key[1], name |-> name[1]])
                    ELSE Panic
           ELSE IF IsSome(JsonGet(json, "error"))
           THEN Err("Api", JsonToString(JsonGet(json, "error")[1]))
           ELSE Err("Api", "Unexpected response format")

get_session_end(rp) ==
  IF IsSome(JsonError(rp)) THEN JsonError(rp)[1]
  ELSE LET json == rp.body[1]
       IN  IF IsSome(JsonGet(json, "session"))
           THEN LET session == JsonGet(json, "session")[1]
                    key == JsonAsStr(JsonIndex(session, "key"))
                    name == JsonAsStr(JsonIndex(session, "name"))
                IN  IF IsSome(key) /\ IsSome(name)
                    THEN Ok([key |-> key[1], name |-> name[1]])
                    ELSE Panic
           ELSE IF IsSome(JsonGet(json, "error"))
           THEN Err("Auth", JsonToString(JsonGet(json, "error")[1]))
           ELSE Err("Auth", "Unexpected response format")

-----------------------------------------------------------------------------
(* Client::update_now_playing                                              *)

\* Option<u32>/Option<u64> to the Option of its decimal text.
OptDecStr(o) ==
  IF IsSome(o) THEN Some(DecStr(o[1])) ELSE None

update_now_playing_params(a, now_playing) ==
  LET p1 == Insert(EmptyMap, "method", "track.updateNowPlaying")
      p2 == Insert(p1, "api_key", a.api_key)
      p3 == Insert(p2, "sk", a.session_key[1])
      p4 == Insert(p3, "artist", now_playing.artist)
      p5 == Insert(p4, "track", now_playing.track)
      p6 == InsertSome(p5, "album", now_playing.album)
      p7 == InsertSome(p6, "trackNumber", OptDecStr(now_playing.track_number))
      p8 == InsertSome(p7, "duration", OptDecStr(now_playing.duration))
  IN  InsertSome(p8, "albumArtist", now_playing.album_artist)

\* An update_now_playing that sends an empty session key when none is set.
update_now_playing_begin_no_sk_check(a, now_playing) ==
  IF a.mode = "LastFm"
  THEN Send(HttpRequest("POST", API_BASE,
                        Signed(update_now_playing_params(
                                 IF a.session_key = None
                                 THEN [a EXCEPT !.session_key = Some("")]
                                 ELSE a,
                                 now_playing),
                               a.api_secret),
                        None, None))
  ELSE LET url == UrlJoin(a.base_url, "now")
       IN  IF url = None THEN Return(Err("UrlParse", ""))
           ELSE Send(HttpRequest("POST", url[1], EmptyMap, Some(a.token),
                                 Some(now_playing)))

update_now_playing_begin(a, now_playing) ==
  IF a.mode = "LastFm"
  THEN IF a.session_key = None
       THEN Return(Err("Auth", "Session key required"))
       ELSE Send(HttpRequest("POST", API_BASE,
                             Signed(update_now_playing_params(a, now_playing),
                                    a.api_secret),
                             None, None))
  ELSE LET url == UrlJoin(a.base_url, "now")
       IN  IF url = None THEN Return(Err("UrlParse", ""))
           ELSE Send(HttpRequest("POST", url[1], EmptyMap, Some(a.token),
                                 Some(now_playing)))

update_now_playing_end(a, rp) ==
  IF a.mode = "LastFm"
  THEN IF IsSome(JsonError(rp)) THEN JsonError(rp)[1]
       ELSE LET json == rp.body[1]
            IN  IF IsSome(JsonGet(json, "error"))
                THEN LET m == JsonAsStr(JsonIndex(json, "message"))
                     IN  IF IsSome(m) THEN Err("Api", m[1]) ELSE Panic
                ELSE Ok("()")
  ELSE IF IsSome(TransportError(rp)) THEN TransportError(rp)[1]
       ELSE Ok("()")

-----------------------------------------------------------------------------
(* Client::scrobble                                                        *)

\* format!("{}[{}]", name, i)
Indexed(name, i) ==
  name \o "[" \o DecStr(i) \o "]"

\* A loop body that numbers the records from 1.
scrobble_record_params_from_one(m, i, scrobble) ==
  LET p1 == Insert(m, Indexed("artist", i + 1), scrobble.artist)
      p2 == Insert(p1, Indexed("track", i + 1), scrobble.track)
      p3 == Insert(p2, Indexed("timestamp", i + 1), DecStr(scrobble.timestamp))
      p4 == InsertSome(p3, Indexed("album", i + 1), scrobble.album)
      p5 == InsertSome(p4, Indexed("trackNumber", i + 1),
                       OptDecStr(scrobble.track_number))
      p6 == InsertSome(p5, Indexed("duration", i + 1),
                       OptDecStr(scrobble.duration))
  IN  InsertSome(p6, Indexed("albumArtist", i + 1), scrobble.album_artist)

\* The body of the loop over the batch: the inserts for record i (from 0).
scrobble_record_params(m, i, scrobble) ==
  LET p1 == Insert(m, Indexed("artist", i), scrobble.artist)
      p2 == Insert(p1, Indexed("track", i), scrobble.track)
      p3 == Insert(p2, Indexed("timestamp", i), DecStr(scrobble.timestamp))
      p4 == InsertSome(p3, Indexed("album", i), scrobble.album)
      p5 == InsertSome(p4, Indexed("trackNumber", i),
                       OptDecStr(scrobble.track_number))
      p6 == InsertSome(p5, Indexed("duration", i), OptDecStr(scrobble.duration))
  IN  InsertSome(p6, Indexed("albumArtist", i), scrobble.album_artist)

\* Inserting the entries of q into p, one after the other.
InsertAll(p, q) ==
  [k \in (DOMAIN p) \cup (DOMAIN q) |-> IF k \in DOMAIN q THEN q[k] ELSE p[k]]

\* The inserts of the loop for the records at positions lo..hi (from 1) of
\* the batch, in order.
RECURSIVE scrobble_loop(_, _, _)
scrobble_loop(scrobbles, lo, hi) ==
  IF lo = hi THEN scrobble_record_params(EmptyMap, lo - 1, scrobbles[lo])
  ELSE LET mid == (lo + hi) \div 2
       IN  InsertAll(scrobble_loop(scrobbles, lo, mid),
                     scrobble_loop(scrobbles, mid + 1, hi))

scrobble_params(a, scrobbles) ==
  LET p1 == Insert(EmptyMap, "method", "track.scrobble")
      p2 == Insert(p1, "api_key", a.api_key)
      p3 == Insert(p2, "sk", a.session_key[1])
  IN  InsertAll(p3, scrobble_loop(scrobbles, 1, Len(scrobbles)))

\* The field `name` of a struct that serde decodes from j: by name from an
\* object, by position from an array with one element per field.
StructField(j, name, pos, count) ==
  IF j.t = "obj" THEN JsonGet(j, name)
  ELSE IF j.t = "arr" /\ Len(j.f) = count THEN Some(j.f[pos])
  ELSE None

\* A u32 from a Value: a number that is not negative (the numbers of the
\* model are integers below 2^31).
JsonAsU32(o) ==
  IF IsSome(o) /\ o[1].t = "num" /\ o[1].n >= 0 THEN Some(o[1].n) ELSE None

\* serde_json::from_value::<ScrobbleResponse>
DecodeScrobbleResponse(json) ==
  LET data == StructField(json, "scrobbles", 1, 1)
      attr == IF IsSome(data) THEN StructField(data[1], "@attr", 1, 1) ELSE None
      accepted == IF IsSome(attr)
                  THEN JsonAsU32(StructField(attr[1], "accepted", 1, 2))
                  ELSE None
      ignored == IF IsSome(attr)
                 THEN JsonAsU32(StructField(attr[1], "ignored", 2, 2))
                 ELSE None
  IN  IF IsSome(accepted) /\ IsSome(ignored)
      THEN Ok([accepted |-> accepted[1], ignored |-> ignored[1]])
      ELSE Err("Json", "")

\* A scrobble that looks for the session key before it looks at the batch.
scrobble_begin_session_first(a, scrobbles) ==
  IF a.mode = "LastFm" /\ a.session_key = None
  THEN Return(Err("Auth", "Session key required"))
  ELSE IF Len(scrobbles) = 0
  THEN Return(Err("InvalidParameter", "No scrobbles provided"))
  ELSE IF Len(scrobbles) > MaxScrobbles
  THEN Return(Err("InvalidParameter", "Maximum 50 scrobbles per request"))
  ELSE IF a.mode = "LastFm"
  THEN Send(HttpRequest("POST", API_BASE,
                        Signed(scrobble_params(a, scrobbles), a.api_secret),
                        None, None))
  ELSE LET url == UrlJoin(a.base_url, "scrob")
       IN  IF url = None THEN Return(Err("UrlParse", ""))
           ELSE Send(HttpRequest("POST", url[1], EmptyMap, Some(a.token),
                                 Some(scrobbles)))

\* A scrobble whose limit is off by one: it turns a full batch away.
scrobble_begin_limit_49(a, scrobbles) ==
  IF Len(scrobbles) = 0
  THEN Return(Err("InvalidParameter", "No scrobbles provided"))
  ELSE IF Len(scrobbles) >= MaxScrobbles
  THEN Return(Err("InvalidParameter", "Maximum 50 scrobbles per request"))
  ELSE IF a.mode = "LastFm"
  THEN IF a.session_key = None
       THEN Return(Err("Auth", "Session key required"))
       ELSE Send(HttpRequest("POST", API_BASE,
                             Signed(scrobble_params(a, scrobbles), a.api_secret),
                             None, None))
  ELSE LET url == UrlJoin(a.base_url, "scrob")
       IN  IF url = None THEN Return(Err("UrlParse", ""))
           ELSE Send(HttpRequest("POST", url[1], EmptyMap, Some(a.token),
                                 Some(scrobbles)))

scrobble_begin(a, scrobbles) ==
  IF Len(scrobbles) = 0
  THEN Return(Err("InvalidParameter", "No scrobbles provided"))
  ELSE IF Len(scrobbles) > MaxScrobbles
  THEN Return(Err("InvalidParameter", "Maximum 50 scrobbles per request"))
  ELSE IF a.mode = "LastFm"
  THEN IF a.session_key = None
       THEN Return(Err("Auth", "Session key required"))
       ELSE Send(HttpRequest("POST", API_BASE,
                             Signed(scrobble_params(a, scrobbles), a.api_secret),
                             None, None))
  ELSE LET url == UrlJoin(a.base_url, "scrob")
       IN  IF url = None THEN Return(Err("UrlParse", ""))
           ELSE Send(HttpRequest("POST", url[1], EmptyMap, Some(a.token),
                                 Some(scrobbles)))

\* A scrobble that reads the counts from the body in token mode too.
scrobble_end_counts_from_body(a, scrobbles, rp) ==
  IF a.mode = "LastFm"
  THEN IF IsSome(JsonError(rp)) THEN JsonError(rp)[1]
       ELSE LET json == rp.body[1]
            IN  IF IsSome(JsonGet(json, "error"))
                THEN Err("Api", JsonToString(JsonGet(json, "error")[1]))
                ELSE DecodeScrobbleResponse(json)
  ELSE IF IsSome(JsonError(rp)) THEN JsonError(rp)[1]
       ELSE DecodeScrobbleResponse(rp.body[1])

\* scrobbles.len() as u32 is the length itself: it is at most MaxScrobbles.
scrobble_end(a, scrobbles, rp) ==
  IF a.mode = "LastFm"
  THEN IF IsSome(JsonError(rp)) THEN JsonError(rp)[1]
       ELSE LET json == rp.body[1]
            IN  IF IsSome(JsonGet(json, "error"))
                THEN Err("Api", JsonToString(JsonGet(json, "error")[1]))
                ELSE DecodeScrobbleResponse(json)
  ELSE IF IsSome(TransportError(rp)) THEN TransportError(rp)[1]
       ELSE Ok([accepted |-> Len(scrobbles), ignored |-> 0])

-----------------------------------------------------------------------------
(* scrobble.rs: the payloads, and the inputs the model draws from.         *)

\* NowPlaying::new
NowPlayingNew(artist, track) ==
  [artist |-> artist, track |-> track, album |-> None, track_number |-> None,
   duration |-> None, album_artist |-> None, player |-> None]

\* Scrobble::new
ScrobbleNew(artist, track, timestamp) ==
  [artist |-> artist, track |-> track, timestamp |-> timestamp,
   album |-> None, track_number |-> None, duration |-> None,
   album_artist |-> None, player |-> None]

\* with_album, with_track_number, with_duration, with_album_artist and
\* with_player, one after the other.
WithAllOptional(p) ==
  [p EXCEPT !.album = Some("Album"), !.track_number = Some(3),
            !.duration = Some(240), !.album_artist = Some("Various"),
            !.player = Some("mpd")]

NowPlayings ==
  LET base == NowPlayingNew("Artist", "Track")
  IN  {base, WithAllOptional(base),
       [base EXCEPT !.album = Some("Album")],
       [base EXCEPT !.track_number = Some(3)],
       [base EXCEPT !.duration = Some(240)],
       [base EXCEPT !.album_artist = Some("Various")],
       [base EXCEPT !.player = Some("mpd")]}

SampleScrobbles ==
  <<ScrobbleNew("Artist", "Track", 1700000000),
    WithAllOptional(ScrobbleNew("Other", "Song", 1700000300))>>

\* A batch of n records with distinct timestamps.
LongBatch(n) ==
  [i \in 1..n |->
     [SampleScrobbles[(i % 2) + 1] EXCEPT !.timestamp = @ + 1000 * i]]

RECURSIVE BatchesOfLen(_)
BatchesOfLen(n) ==
  IF n = 0 THEN {<<>>}
  ELSE {Append(b, SampleScrobbles[i]) :
          b \in BatchesOfLen(n - 1), i \in 1..Len(SampleScrobbles)}

Batches ==
  UNION {BatchesOfLen(n) : n \in 0..MaxSmallBatch}
    \cup {LongBatch(MaxScrobbles), LongBatch(MaxScrobbles + 1)}

AuthTokens == {"token" \o DecStr(i) : i \in 1..NumTokens}

SessionKeys == {"session" \o DecStr(i) : i \in 1..NumSessionKeys}

\* Client::new and Client::with_token (on base URLs that Url::parse
\* accepts): the clients a program can hold.
Clients ==
  {lastfm("my_api_key", "secret"), lastfm("testkey", "testsecret")}
    \cup {token(u, "my-secret-token") :
            u \in {"https://scrob.example.com/api/",
                   "https://scrob.example.com/api",
                   "mailto:scrob@example.com"}}

JsonDocs ==
  {JObj([token |-> JStr("token1")]),
   JObj([token |-> JNum(7)]),
   JObj([token |-> JNull]),
   JObj([token |-> JStr("token1"), error |-> JNum(4)]),
   JObj([error |-> JNum(4), message |-> JStr("Invalid session")]),
   JObj([error |-> JNum(9)]),
   JObj([error |-> JStr("denied"), message |-> JNum(9)]),
   JObj([message |-> JStr("Invalid session")]),
   JObj(EmptyMap),
   JArr(<<>>),
   JObj([session |-> JObj([key |-> JStr("session1"), name |-> JStr("alice")])]),
   JObj([session |-> JObj([name |-> JStr("alice")])]),
   JObj([session |-> JObj([key |-> JStr("session1")])]),
   JObj([session |-> JObj([key |-> JNum(5), name |-> JStr("alice")])]),
   JObj([session |-> JStr("session1")]),
   JObj([session |-> JNull, error |-> JNum(4)]),
   JObj([scrobbles |->
           JObj(Insert(EmptyMap, "@attr",
                       JObj([accepted |-> JNum(1), ignored |-> JNum(0)])))]),
   JObj([scrobbles |->
           JObj(Insert(EmptyMap, "@attr",
                       JObj([accepted |-> JNum(0), ignored |-> JNum(2)])))]),
   JObj([scrobbles |-> JObj(EmptyMap)])}

\* What the network may answer to a request.
Replies ==
  {SendError}
    \cup {Response(FALSE, b) :
            b \in {None, Some(JObj([error |-> JNum(4),
                                    message |-> JStr("Invalid session")]))}}
    \cup {Response(TRUE, None)}
    \cup {Response(TRUE, Some(d)) : d \in JsonDocs}

-----------------------------------------------------------------------------
(* track.rs: decoding a track.getInfo response.  The responses of the      *)
(* model are JSON objects that carry the name, mbid, url, artist and the   *)
(* five counters of a track; streamable, album, toptags and wiki are       *)
(* absent from them and decode to None.  A u64 is kept as its decimal      *)
(* numeral (no sign, no leading zero): it does not fit the integers of     *)
(* the model.                                                              *)

\* u64::MAX
U64_MAX == "18446744073709551615"

\* u64::default()
U64_ZERO == "0"

\* Every character of s is a decimal digit.
IsDigits(s) ==
  \A i \in 1..Len(s) :
    \E d \in 1..Len(DecDigits) : SubSeq(s, i, i) = SubSeq(DecDigits, d, d)

\* The numeral of the value of a string of digits.
RECURSIVE StripZeros(_)
StripZeros(s) ==
  IF Len(s) > 1 /\ SubSeq(s, 1, 1) = "0" THEN StripZeros(SubSeq(s, 2, Len(s)))
  ELSE s

\* str::parse::<u64>().ok(): decimal digits after an optional `+`; the
\* empty string, a lone sign, any other character and a value above
\* u64::MAX are errors.
ParseU64(s) ==
  IF s = "" \/ s = "+" \/ s = "-" THEN None
  ELSE LET digits == IF SubSeq(s, 1, 1) = "+" THEN SubSeq(s, 2, Len(s)) ELSE s
           n == StripZeros(digits)
       IN  IF ~IsDigits(digits) THEN None
           ELSE IF \/ Len(n) > Len(U64_MAX)
                   \/ Len(n) = Len(U64_MAX) /\ StrLess(U64_MAX, n)
           THEN None
           ELSE Some(n)

\* String::deserialize
DeserializeString(v) ==
  IF v.t = "str" THEN Ok(v.s) ELSE Err("Json", "")

\* A required counter that fails on text that is no number.
deserialize_string_as_u64_strict(v) ==
  IF v.t # "str" \/ ParseU64(v.s) = None THEN Err("Json", "")
  ELSE Ok(ParseU64(v.s)[1])

\* s.parse().unwrap_or(0) on the String of the value
deserialize_string_as_u64(v) ==
  IF v.t # "str" THEN Err("Json", "")
  ELSE LET n == ParseU64(v.s)
       IN  Ok(IF IsSome(n) THEN n[1] ELSE U64_ZERO)

\* s.and_then(|s| s.parse().ok()) on the Option<String> of the value
deserialize_optional_string_as_u64(v) ==
  IF v.t = "null" THEN Ok(None)
  ELSE IF v.t = "str" THEN Ok(ParseU64(v.s))
  ELSE Err("Json", "")

\* Deserialize for Artist
DecodeArtist(v) ==
  IF v.t # "obj" THEN Err("Json", "")
  ELSE LET name == IF "name" \in DOMAIN v.f THEN DeserializeString(v.f["name"])
                   ELSE Err("Json", "")
           mbid == IF "mbid" \in DOMAIN v.f THEN DeserializeString(v.f["mbid"])
                   ELSE Ok("")
           url == IF "url" \in DOMAIN v.f THEN DeserializeString(v.f["url"])
                  ELSE Err("Json", "")
       IN  IF "Err" \in {name.tag, mbid.tag, url.tag} THEN Err("Json", "")
           ELSE Ok([name |-> name.val, mbid |-> mbid.val, url |-> url.val])

\* Deserialize for TrackInfo: a field without `default` must be there, one
\* with it takes the default of its type when the key is missing.
DecodeTrackInfo(v) ==
  IF v.t # "obj" THEN Err("Json", "")
  ELSE LET has(k) == k \in DOMAIN v.f
           name == IF has("name") THEN DeserializeString(v.f["name"])
                   ELSE Err("Json", "")
           mbid == IF has("mbid") THEN DeserializeString(v.f["mbid"])
                   ELSE Ok("")
           url == IF has("url") THEN DeserializeString(v.f["url"])
                  ELSE Err("Json", "")
           duration == IF has("duration")
                       THEN deserialize_optional_string_as_u64(v.f["duration"])
                       ELSE Ok(None)
           listeners == IF has("listeners")
                        THEN deserialize_string_as_u64(v.f["listeners"])
                        ELSE Ok(U64_ZERO)
           playcount == IF has("playcount")
                        THEN deserialize_string_as_u64(v.f["playcount"])
                        ELSE Ok(U64_ZERO)
           artist == IF has("artist") THEN DecodeArtist(v.f["artist"])
                     ELSE Err("Json", "")
           userplaycount ==
             IF has("userplaycount")
             THEN deserialize_optional_string_as_u64(v.f["userplaycount"])
             ELSE Ok(None)
           userloved == IF has("userloved")
                        THEN deserialize_optional_string_as_u64(v.f["userloved"])
                        ELSE Ok(None)
       IN  IF "Err" \in {name.tag, mbid.tag, url.tag, duration.tag,
                          listeners.tag, playcount.tag, artist.tag,
                          userplaycount.tag, userloved.tag}
           THEN Err("Json", "")
           ELSE Ok([name |-> name.val, mbid |-> mbid.val, url |-> url.val,
                    duration |-> duration.val, streamable |-> None,
                    listeners |-> listeners.val, playcount |-> playcount.val,
                    artist |-> artist.val, album |-> None,
                    userplaycount |-> userplaycount.val,
                    userloved |-> userloved.val, toptags |-> None,
                    wiki |-> None])

\* Deserialize for TrackInfoResponse
DecodeTrackInfoResponse(v) ==
  IF v.t = "obj" /\ "track" \in DOMAIN v.f
  THEN LET track == DecodeTrackInfo(v.f["track"])
       IN  IF track.tag = "Err" THEN track ELSE Ok([track |-> track.val])
  ELSE Err("Json", "")

\* The texts a counter arrives as.
CounterTexts ==
  {"12345", "0", "007", "+7", "-3", "", "not-a-number", "12.5", " 42",
   "18446744073709551615", "18446744073709551616"}

\* What a response may hold under the key of a counter: nothing (None), or
\* a text, null or a number.
CounterFields ==
  {None, Some(JNull), Some(JNum(5))} \cup {Some(JStr(s)) : s \in CounterTexts}

FewCounterFields ==
  {None, Some(JStr("12345")), Some(JStr("not-a-number"))}

\* The fields of a track that are no counters; without a url when ~whole.
TrackBase(whole) ==
  LET p1 == Insert(EmptyMap, "name", JStr("Wesley's Theory"))
      p2 == Insert(p1, "artist",
                   JObj([name |-> JStr("Kendrick Lamar"),
                         url |-> JStr("https://www.last.fm/music/Kendrick+Lamar")]))
  IN  IF whole THEN Insert(p2, "url", JStr("https://www.last.fm/music/x/_/y"))
      ELSE p2

TrackDoc(whole, listeners, playcount, duration, userplaycount, userloved) ==
  LET p1 == InsertSome(TrackBase(whole), "listeners", listeners)
      p2 == InsertSome(p1, "playcount", playcount)
      p3 == InsertSome(p2, "duration", duration)
      p4 == InsertSome(p3, "userplaycount", userplaycount)
  IN  JObj([track |-> JObj(InsertSome(p4, "userloved", userloved))])

TrackDocs ==
  {TrackDoc(w, l, p, d, up, ul) :
     w \in BOOLEAN, l \in CounterFields, p \in FewCounterFields,
     d \in CounterFields, up \in FewCounterFields, ul \in FewCounterFields}

-----------------------------------------------------------------------------
(* The client in use.                                                      *)

NoCall == [op |-> "none"]

Init ==
  /\ auth \in Clients
  /\ pc = "idle"
  /\ call = NoCall
  /\ request = None
  /\ reply = None
  /\ result = None
  /\ sent = 0
  /\ sig_params = EmptyMap
  /\ sig_secret = ""
  /\ sig_out = None
  /\ track_json = None
  /\ track_out = None

\* The caller starts operation c; step is what the operation does before
\* it awaits.
Begin(c, step) ==
  /\ pc = "idle"
  /\ call' = c
  /\ reply' = None
  /\ IF IsSome(step.req)
     THEN /\ pc' = "awaiting"
          /\ request' = step.req
          /\ sent' = sent + 1
          /\ result' = None
     ELSE /\ pc' = "done"
          /\ request' = None
          /\ sent' = sent
          /\ result' = step.ret
  /\ UNCHANGED <<auth, sigVars, trackVars>>

\* An operation that sends its request once more when no response came.
EndRetrying(rp, r) ==
  /\ pc = "awaiting"
  /\ IF rp.kind = "send_error" /\ sent < 2
     THEN /\ sent' = sent + 1
          /\ UNCHANGED <<pc, request, reply, result>>
     ELSE /\ reply' = Some(rp)
          /\ request' = None
          /\ result' = Some(r)
          /\ pc' = "done"
          /\ sent' = sent
  /\ UNCHANGED <<auth, call, sigVars, trackVars>>

\* The network answers the request in flight with rp and the operation
\* resumes and returns r.
End(rp, r) ==
  /\ pc = "awaiting"
  /\ reply' = Some(rp)
  /\ request' = None
  /\ result' = Some(r)
  /\ pc' = "done"
  /\ UNCHANGED <<auth, call, sent, sigVars, trackVars>>

\* Client::with_session_key
WithSessionKey ==
  /\ pc = "idle"
  /\ \E key \in SessionKeys : auth' = set_session_key(auth, key)
  /\ UNCHANGED <<pc, call, request, reply, result, sent, sigVars, trackVars>>

GetToken ==
  /\ pc = "idle"
  /\ Begin([op |-> "get_token"], get_token_begin(auth))

GetTokenReply ==
  /\ call.op = "get_token"
  /\ \E rp \in Replies : End(rp, get_token_end(rp))

GetAuthUrl ==
  /\ pc = "idle"
  /\ \E tok \in AuthTokens :
       Begin([op |-> "get_auth_url", token |-> tok],
             Return(get_auth_url(auth, tok)))

GetSession ==
  /\ pc = "idle"
  /\ \E tok \in AuthTokens :
       Begin([op |-> "get_session", token |-> tok], get_session_begin(auth, tok))

GetSessionReply ==
  /\ call.op = "get_session"
  /\ \E rp \in Replies : End(rp, get_session_end(rp))

UpdateNowPlaying ==
  /\ pc = "idle"
  /\ \E np \in NowPlayings :
       Begin([op |-> "update_now_playing", now_playing |-> np],
             update_now_playing_begin(auth, np))

UpdateNowPlayingReply ==
  /\ call.op = "update_now_playing"
  /\ \E rp \in Replies : End(rp, update_now_playing_end(auth, rp))

Scrobble ==
  /\ pc = "idle"
  /\ \E b \in Batches :
       Begin([op |-> "scrobble", scrobbles |-> b], scrobble_begin(auth, b))

ScrobbleReply ==
  /\ call.op = "scrobble"
  /\ \E rp \in Replies : End(rp, scrobble_end(auth, call.scrobbles, rp))

\* The caller has taken the result (or the panic has unwound): the client
\* is free for the next call.
Finish ==
  /\ pc = "done"
  /\ pc' = "idle"
  /\ call' = NoCall
  /\ request' = None
  /\ reply' = None
  /\ result' = None
  /\ sent' = 0
  /\ UNCHANGED <<auth, sigVars, trackVars>>

Next ==
  \/ WithSessionKey
  \/ GetToken
  \/ GetTokenReply
  \/ GetAuthUrl
  \/ GetSession
  \/ GetSessionReply
  \/ UpdateNowPlaying
  \/ UpdateNowPlayingReply
  \/ Scrobble
  \/ ScrobbleReply
  \/ Finish

Spec == Init /\ [][Next]_vars

-----------------------------------------------------------------------------
(* signature::generate on its own: a caller builds a parameter map and     *)
(* asks for its signature.                                                 *)

SigKeys == {"api_key", "format", "method", "token"}

SigValues == {"test", "json"}

SigSecrets == {"secret", ""}

SigMaps == UNION {[K -> SigValues] : K \in SUBSET SigKeys}

SigInit ==
  /\ auth = lastfm("my_api_key", "secret")
  /\ pc = "idle"
  /\ call = NoCall
  /\ request = None
  /\ reply = None
  /\ result = None
  /\ sent = 0
  /\ sig_params \in SigMaps
  /\ sig_secret \in SigSecrets
  /\ sig_out = None
  /\ track_json = None
  /\ track_out = None

SigGenerate ==
  /\ sig_out' = Some(generate(sig_params, sig_secret))
  /\ UNCHANGED <<clientVars, sig_params, sig_secret, trackVars>>

SigInsert ==
  /\ \E k \in SigKeys, v \in SigValues : sig_params' = Insert(sig_params, k, v)
  /\ sig_out' = None
  /\ UNCHANGED <<clientVars, sig_secret, trackVars>>

SigNext ==
  \/ SigGenerate
  \/ SigInsert

SigSpec == SigInit /\ [][SigNext]_vars

-----------------------------------------------------------------------------
(* Decoding on its own: a response body arrives and is decoded.            *)

TrackInit ==
  /\ auth = lastfm("my_api_key", "secret")
  /\ pc = "idle"
  /\ call = NoCall
  /\ request = None
  /\ reply = None
  /\ result = None
  /\ sent = 0
  /\ sig_params = EmptyMap
  /\ sig_secret = ""
  /\ sig_out = None
  /\ track_json \in {Some(d) : d \in TrackDocs}
  /\ track_out = None

TrackDecode ==
  /\ track_json # None
  /\ track_out = None
  /\ track_out' = Some(DecodeTrackInfoResponse(track_json[1]))
  /\ UNCHANGED <<clientVars, sigVars, track_json>>

TrackNext ==
  \/ TrackDecode

TrackSpec == TrackInit /\ [][TrackNext]_vars

-----------------------------------------------------------------------------
(* Properties.                                                             *)

IsErr(kind) ==
  /\ result # None
  /\ result[1].tag = "Err"
  /\ result[1].kind = kind

\* The current call has returned without a request.
ReturnedWithoutRequest ==
  /\ pc = "done"
  /\ sent = 0
  /\ request = None
  /\ reply = None

ValidBatch(b) ==
  Len(b) >= 1 /\ Len(b) <= MaxScrobbles

\* C1: on a client in token mode, every call of get_token, get_auth_url or
\* get_session returns Error::Auth, and the call issues no request.
C1_TokenModeRejectsAuthFlow ==
  (auth.mode = "Token" /\ call.op \in {"get_token", "get_auth_url", "get_session"})
    => (ReturnedWithoutRequest /\ IsErr("Auth"))

C1_Witness ==
  /\ auth.mode = "Token"
  /\ call.op = "get_token"
  /\ pc = "done"

\* C2: scrobble with an empty batch or with more than 50 records returns
\* Error::InvalidParameter and issues no request, in either mode and with
\* or without a session key.
C2_BatchSizeRejected ==
  (call.op = "scrobble" /\ ~ValidBatch(call.scrobbles))
    => (ReturnedWithoutRequest /\ IsErr("InvalidParameter"))

C2_Witness ==
  /\ call.op = "scrobble"
  /\ Len(call.scrobbles) = MaxScrobbles + 1
  /\ auth.mode = "LastFm"
  /\ auth.session_key = None
  /\ pc = "done"

\* The client can address and authenticate a request: a session key in
\* keyed mode, a base URL that takes a relative path in token mode.
CanDispatch(a) ==
  IF a.mode = "LastFm" THEN a.session_key # None
  ELSE ~CannotBeABase(a.base_url)

\* C3 as claimed: scrobble with 1 to 50 records issues a request, for every
\* client.
C3_ValidBatchAlwaysDispatched ==
  (call.op = "scrobble" /\ ValidBatch(call.scrobbles)) => sent = 1

\* C3 as amended: scrobble with 1 to 50 records is never turned away for
\* its size, and it issues a request exactly when the client can dispatch;
\* otherwise it returns Error::Auth (keyed, no session key) or
\* Error::UrlParse (token mode, base URL that cannot be a base).
C3_ValidBatchDispatchedWhenAble ==
  (call.op = "scrobble" /\ ValidBatch(call.scrobbles))
    => /\ ~IsErr("InvalidParameter")
       /\ CanDispatch(auth) => sent = 1
       /\ ~CanDispatch(auth)
            => /\ ReturnedWithoutRequest
               /\ IsErr(IF auth.mode = "LastFm" THEN "Auth" ELSE "UrlParse")

C3_Witness ==
  /\ call.op = "scrobble"
  /\ Len(call.scrobbles) = MaxScrobbles
  /\ auth.mode = "LastFm"
  /\ pc = "awaiting"
  /\ sent = 1

\* C4 as claimed: in keyed mode without a session key, update_now_playing
\* and scrobble return Error::Auth for any payload and any batch.
C4_NoSessionKeyAlwaysAuthError ==
  (/\ auth.mode = "LastFm"
   /\ auth.session_key = None
   /\ call.op \in {"update_now_playing", "scrobble"})
    => (ReturnedWithoutRequest /\ IsErr("Auth"))

\* C4 as amended: in keyed mode without a session key, update_now_playing
\* (any payload) and scrobble of a batch of 1 to 50 records return
\* Error::Auth; scrobble of an empty or longer batch returns
\* Error::InvalidParameter; none of them issues a request.
C4_NoSessionKeyNoRequest ==
  (/\ auth.mode = "LastFm"
   /\ auth.session_key = None
   /\ call.op \in {"update_now_playing", "scrobble"})
    => /\ ReturnedWithoutRequest
       /\ IF call.op = "scrobble" /\ ~ValidBatch(call.scrobbles)
          THEN IsErr("InvalidParameter")
          ELSE IsErr("Auth")

C4_Witness ==
  /\ auth.mode = "LastFm"
  /\ auth.session_key = None
  /\ call.op = "update_now_playing"
  /\ call.now_playing.player # None
  /\ pc = "done"

\* C5: in token mode, a scrobble of N records (1 <= N <= 50) that got a
\* response with a success status returns accepted = N and ignored = 0
\* whatever the body is; with another status it returns Error::Http.
C5_TokenScrobbleSynthesis ==
  (/\ auth.mode = "Token"
   /\ call.op = "scrobble"
   /\ pc = "done"
   /\ reply # None
   /\ reply[1].kind = "response")
    => IF reply[1].status_ok
       THEN /\ result[1].tag = "Ok"
            /\ result[1].val.accepted = Len(call.scrobbles)
            /\ result[1].val.ignored = 0
            /\ ValidBatch(call.scrobbles)
       ELSE IsErr("Http")

C5_Witness ==
  /\ auth.mode = "Token"
  /\ call.op = "scrobble"
  /\ Len(call.scrobbles) = 2
  /\ pc = "done"
  /\ reply # None
  /\ reply[1].status_ok
  /\ reply[1].body # None
  /\ DecodeScrobbleResponse(reply[1].body[1]) = Ok([accepted |-> 0, ignored |-> 2])
  /\ result[1].val.accepted = 2

\* BTreeMap::remove of every key in ks.
Without(m, ks) ==
  [k \in (DOMAIN m) \ ks |-> m[k]]

\* key then value of the entries of m under the keys ks, least key first.
RECURSIVE ConcatAscending(_, _)
ConcatAscending(m, ks) ==
  IF ks = {} THEN ""
  ELSE LET k == CHOOSE x \in ks : \A y \in ks \ {x} : StrLess(x, y)
       IN  k \o m[k] \o ConcatAscending(m, ks \ {k})

\* C6: generate(params, secret) is the digest of key then value of every
\* entry whose key is not `format`, in ascending key order, followed by the
\* secret; so it does not change when a `format` entry is added, changed or
\* removed, and for the empty map it is the digest of the secret.  The
\* example of the specification is the digest of "methodtestsecret".
C6_SignatureContent ==
  sig_out # None
    => /\ sig_out[1] = Md5Hex(ConcatAscending(sig_params,
                                              (DOMAIN sig_params) \ {"format"})
                                \o sig_secret)
       /\ sig_out[1] = generate(Without(sig_params, {"format"}), sig_secret)
       /\ \A v \in SigValues :
            sig_out[1] = generate(Insert(sig_params, "format", v), sig_secret)
       /\ sig_params = EmptyMap => sig_out[1] = Md5Hex(sig_secret)
       /\ (sig_params = [method |-> "test", format |-> "json"]
             /\ sig_secret = "secret")
            => sig_out[1] = "b8da213d47dafb7d7f0b2925886517e0"

C6_Witness ==
  /\ sig_out # None
  /\ sig_params = [method |-> "test", format |-> "json"]
  /\ sig_secret = "secret"

\* C7 as claimed: every operation returns a success value or an Error
\* value and never panics, whatever JSON the remote answers.
C7_NeverPanics ==
  pc = "done" => result[1].tag \in {"Ok", "Err"}

\* The reply to the current call is a response with a success status and a
\* JSON body.
GotJson ==
  /\ pc = "done"
  /\ reply # None
  /\ reply[1].kind = "response"
  /\ reply[1].status_ok
  /\ reply[1].body # None

\* C8 as claimed: in keyed mode get_token succeeds with the token when the
\* JSON response has a `token` field, fails with Error::Api when it has an
\* `error` field, and fails with an unexpected-format error otherwise.
C8_GetTokenMapping ==
  (call.op = "get_token" /\ auth.mode = "LastFm" /\ GotJson)
    => LET json == reply[1].body[1]
       IN  IF IsSome(JsonGet(json, "token"))
           THEN result[1].tag = "Ok"
           ELSE IF IsSome(JsonGet(json, "error"))
           THEN IsErr("Api")
           ELSE /\ result[1].tag = "Err"
                /\ result[1].msg = "Unexpected response format"

C10_KeyedRequestsSigned ==
  (auth.mode = "LastFm" /\ request # None)
    => LET params == request[1].params
       IN  /\ "format" \in DOMAIN params
           /\ params["format"] = "json"
           /\ "api_sig" \in DOMAIN params
           /\ params["api_sig"]
                = generate(Without(params, {"api_sig", "format"}),
                           auth.api_secret)

C10_Witness ==
  /\ auth.mode = "LastFm"
  /\ request # None
  /\ call.op = "scrobble"
  /\ Len(call.scrobbles) = 2
  /\ request[1].verb = "POST"

\* The parameters that belong to the request, not to a record.
RequestKeys == {"method", "api_key", "sk", "api_sig", "format"}

\* The names of the indexed parameters the remote service knows.
RecordNames ==
  {"artist", "track", "timestamp", "album", "trackNumber", "duration",
   "albumArtist"}

\* C11: in keyed mode the request of scrobble holds, for every position i
\* (from 0) of the batch, the artist, track and timestamp of the i-th record
\* under artist[i], track[i] and timestamp[i], and holds no indexed
\* parameter for a position outside the batch.
C11_ScrobbleIndexedInOrder ==
  (auth.mode = "LastFm" /\ call.op = "scrobble" /\ request # None)
    => LET params == request[1].params
           n == Len(call.scrobbles)
           key(name, i) == name \o "[" \o DecStr(i) \o "]"
       IN  /\ \A i \in 0..(n - 1) :
                /\ {key("artist", i), key("track", i), key("timestamp", i)}
                     \subseteq DOMAIN params
                /\ params[key("artist", i)] = call.scrobbles[i + 1].artist
                /\ params[key("track", i)] = call.scrobbles[i + 1].track
                /\ params[key("timestamp", i)]
                     = DecStr(call.scrobbles[i + 1].timestamp)
           /\ DOMAIN params
                \subseteq RequestKeys
                            \cup {key(name, i) :
                                    name \in RecordNames, i \in 0..(n - 1)}

C11_Witness ==
  /\ auth.mode = "LastFm"
  /\ call.op = "scrobble"
  /\ request # None
  /\ Len(call.scrobbles) = 2
  /\ request[1].params["artist[0]"] = "Other"
  /\ request[1].params["timestamp[0]"] = "1700000300"
  /\ request[1].params["artist[1]"] = "Artist"
  /\ request[1].params["timestamp[1]"] = "1700000000"

\* The optional fields of a payload with the names of their parameters.
OptionalParams ==
  [album |-> "album", track_number |-> "trackNumber", duration |-> "duration",
   album_artist |-> "albumArtist", player |-> "player"]

\* In params there is a parameter (named key, or named otherwise for
\* `player`, whose name the remote protocol does not fix) for field of
\* payload exactly when the field is present.
OptionalFieldSent(params, payload, field, key) ==
  IF payload[field] = None THEN key \notin DOMAIN params
  ELSE IF field = "player"
  THEN \E k \in DOMAIN params : params[k] = payload[field][1]
  ELSE key \in DOMAIN params

\* C12 as claimed: in keyed mode the request of update_now_playing has a
\* parameter for every optional field of the payload that is present
\* (album, track_number, duration, album_artist, player) and none for an
\* absent one; the request of scrobble has the same for every record, under
\* names with the index of the record.
C12_PresentOptionalFieldsSent ==
  (auth.mode = "LastFm" /\ request # None)
    => LET params == request[1].params
       IN  /\ call.op = "update_now_playing"
                => \A f \in DOMAIN OptionalParams :
                     OptionalFieldSent(params, call.now_playing, f,
                                       OptionalParams[f])
           /\ call.op = "scrobble"
                => \A i \in 1..Len(call.scrobbles), f \in DOMAIN OptionalParams :
                     OptionalFieldSent(params, call.scrobbles[i], f,
                                       OptionalParams[f] \o "[" \o DecStr(i - 1)
                                         \o "]")

\* The current call is one that a mode, session-key or batch-size check
\* turns away, or get_auth_url.
RejectedOrLocal ==
  \/ call.op = "get_auth_url"
  \/ auth.mode = "Token" /\ call.op \in {"get_token", "get_session"}
  \/ /\ auth.mode = "LastFm"
     /\ auth.session_key = None
     /\ call.op \in {"update_now_playing", "scrobble"}
  \/ call.op = "scrobble" /\ ~ValidBatch(call.scrobbles)

\* The reply to the current call is a transport failure or a response with
\* a status that is no success.
GotFailure ==
  /\ reply # None
  /\ reply[1].kind = "send_error" \/ ~reply[1].status_ok

\* C13: a call issues at most one request and never retries: a call that
\* got a transport failure or a non-success status has returned that
\* failure (Error::Http) with its one request sent and none in flight; a
\* request is only ever sent by the step that starts a call; get_auth_url
\* and the calls a mode, session-key or batch-size check turns away send
\* none.
C13_AtMostOneRequestNoRetry ==
  /\ [](/\ sent \in {0, 1}
        /\ GotFailure => (pc = "done" /\ IsErr("Http") /\ sent = 1
                            /\ request = None)
        /\ RejectedOrLocal => (sent = 0 /\ request = None))
  /\ [][/\ sent' > sent => (pc = "idle" /\ sent = 0 /\ sent' = 1)
        /\ pc = "awaiting" => (pc' = "done" /\ sent' = sent /\ request' = None)
        /\ pc = "done" => sent' <= sent]_vars

C13_Witness ==
  /\ GotFailure
  /\ reply[1].kind = "response"
  /\ call.op = "scrobble"
  /\ pc = "done"
  /\ sent = 1

\* C14: the variant of the client and its api_key, api_secret, base_url and
\* token never change; only with_session_key on a keyed client changes the
\* session key, and on a token client it changes nothing; get_session does
\* not store the session key it returns, so update_now_playing and scrobble
\* (of 1 to 50 records) on a keyed client that was never given a key with
\* with_session_key are turned away with Error::Auth.
C14_OnlyWithSessionKeyChangesAuth ==
  /\ [][/\ auth'.mode = auth.mode
        /\ auth.mode = "Token" => auth' = auth
        /\ auth.mode = "LastFm"
             => /\ auth'.api_key = auth.api_key
                /\ auth'.api_secret = auth.api_secret
        /\ auth' # auth
             => /\ pc = "idle" /\ pc' = "idle" /\ call' = call
                /\ \E key \in SessionKeys :
                     auth' = [auth EXCEPT !.session_key = Some(key)]
        /\ call.op = "get_session" => auth' = auth]_vars
  /\ []((/\ auth.mode = "LastFm"
         /\ auth.session_key = None
         /\ \/ call.op = "update_now_playing"
            \/ call.op = "scrobble" /\ ValidBatch(call.scrobbles))
          => (ReturnedWithoutRequest /\ IsErr("Auth")))

\* get_session has returned a SessionKey and the client still holds none.
C14_Witness ==
  /\ call.op = "get_session"
  /\ pc = "done"
  /\ result[1].tag = "Ok"
  /\ result[1].val.key = "session1"
  /\ auth.session_key = None

\* C15: in keyed mode get_auth_url(token) returns exactly
\* "http://www.last.fm/api/auth/?api_key=<api_key>&token=<token>" and sends
\* no request, with or without a session key and whatever token it is
\* given; for api_key "my_api_key" and token "test_token" that is the URL
\* of the specification's example.
C15_AuthUrlExact ==
  /\ (auth.mode = "LastFm" /\ call.op = "get_auth_url")
       => /\ ReturnedWithoutRequest
          /\ result
               = Some(Ok("http://www.last.fm/api/auth/?api_key=" \o auth.api_key
                           \o "&token=" \o call.token))
  /\ get_auth_url(lastfm("my_api_key", "secret"), "test_token")
       = Ok("http://www.last.fm/api/auth/?api_key=my_api_key&token=test_token")

C15_Witness ==
  /\ auth.mode = "LastFm"
  /\ auth.session_key # None
  /\ call.op = "get_auth_url"
  /\ call.token = "token2"
  /\ result = Some(Ok("http://www.last.fm/api/auth/?api_key=testkey&token=token2"))

RequiredCounters == {"listeners", "playcount"}

OptionalCounters == {"duration", "userplaycount", "userloved"}

\* The number each text of the model stands for, if it stands for one that
\* a u64 holds.
TextAsNumber ==
  [s \in CounterTexts |->
     CASE s = "12345" -> Some("12345")
       [] s = "0" -> Some("0")
       [] s = "007" -> Some("7")
       [] s = "+7" -> Some("7")
       [] s = "18446744073709551615" -> Some("18446744073709551615")
       [] OTHER -> None]

\* C16: decoding a track-info response whose counters are texts does not
\* fail for a text that is no number: a required counter (listeners,
\* playcount) with such a text decodes as 0, an optional counter (duration,
\* userplaycount, userloved) with such a text or without an entry decodes
\* as absent, and a counter whose text is a number decodes as that number.
C16_LenientCounters ==
  track_out # None
    => LET f == track_json[1].f["track"].f
           r == track_out[1]
           IsText(c) == c \in DOMAIN f /\ f[c].t = "str"
       IN  /\ (/\ {"name", "url", "artist"} \subseteq DOMAIN f
               /\ \A c \in RequiredCounters \cup OptionalCounters :
                    c \in DOMAIN f => IsText(c))
                => r.tag = "Ok"
           /\ r.tag = "Ok"
                => /\ \A c \in RequiredCounters :
                        IsText(c)
                          => r.val.track[c]
                               = IF TextAsNumber[f[c].s] = None THEN "0"
                                 ELSE TextAsNumber[f[c].s][1]
                   /\ \A c \in OptionalCounters :
                        /\ IsText(c) => r.val.track[c] = TextAsNumber[f[c].s]
                        /\ c \notin DOMAIN f => r.val.track[c] = None

C16_Witness ==
  /\ track_out # None
  /\ track_out[1].tag = "Ok"
  /\ "listeners" \in DOMAIN track_json[1].f["track"].f
  /\ track_json[1].f["track"].f["listeners"].s = "not-a-number"
  /\ track_out[1].val.track.listeners = "0"
  /\ "duration" \in DOMAIN track_json[1].f["track"].f
  /\ track_json[1].f["track"].f["duration"].s = "12.5"
  /\ track_out[1].val.track.duration = None
  /\ "userloved" \notin DOMAIN track_json[1].f["track"].f
  /\ track_out[1].val.track.userloved = None
  /\ track_out[1].val.track.playcount = "12345"

====
